---- MODULE Spec2Model ----
(***************************************************************************)
(* Semantic analysis of one markup Element of a template compiler:         *)
(* src/compiler/compile/nodes/Element.ts.  The constructor resolves the    *)
(* namespace, rewrites textarea/option/pre, partitions the raw directive   *)
(* list into typed collaborators, builds the child subtree, validates,     *)
(* compacts whitespace and hands the element to the style sheet, which     *)
(* later injects the scope class.                                           *)
(*                                                                         *)
(* A JavaScript string is a sequence of symbols (a word, a blank, a        *)
(* newline); null and undefined are the one-symbol sequences Null and      *)
(* Undefined, which no source text contains.  Tag names, attribute names   *)
(* and node types are atomic strings.                                      *)
(***************************************************************************)
EXTENDS Integers, Sequences, FiniteSets, TLC

VARIABLES
    corpus,     \* which family of templates the compile draws its input from
    component,  \* the umbrella driver: namespace, legacy flag, slot outlets, imports, style-sheet id
    stack,      \* the constructors suspended in map_children, outermost first
    cur         \* the constructor that is running: its input, its element, its position

vars == <<corpus, component, stack, cur>>

\* ------------------------------------------------------------------ bounds

MaxDepth == 1
MaxDirs == 2

\* ------------------------------------------------------------------ values

Null == <<"#null">>
Undefined == <<"#undefined">>
NsSvg == <<"http://www.w3.org/2000/svg">>
NsForeign == <<"https://svelte.dev/docs#template-syntax-svelte-options">>

Truthy(v) == v # Null /\ v # Undefined /\ v # <<>>

Last(s) == s[Len(s)]
Front(s) == SubSeq(s, 1, Len(s) - 1)
Range(s) == {s[i] : i \in 1..Len(s)}
Indices(s) == 1..Len(s)

\* the first index of s whose element satisfies P, or 0 (Array.prototype.find)
FindIndex(s, P(_)) ==
    IF \E i \in Indices(s) : P(s[i])
    THEN CHOOSE i \in Indices(s) : P(s[i]) /\ \A j \in 1..(i - 1) : ~P(s[j])
    ELSE 0

Some(s, P(_)) == \E i \in Indices(s) : P(s[i])

ToLowerCase(name) ==
    CASE name = "foreignObject" -> "foreignobject"
      [] name = "className" -> "classname"
      [] name = "htmlFor" -> "htmlfor"
      [] OTHER -> name

\* shared/utils/names: the vector-graphics, host and void tag sets
is_svg(name) == name \in {"svg", "circle"}
is_html(name) == name \in {"div", "input", "textarea", "option", "pre", "select", "a", "h1",
                           "button", "video", "track", "img", "label", "details", "audio",
                           "marquee", "th", "section", "header", "html", "br"}
is_void(name) == name \in {"input", "img", "br", "track"}

\* ------------------------------------------------------------------ raw nodes

\* a child node as parsed: Text carries data, an Element is built by its own constructor
Node(type, data, id) == [type |-> type, data |-> data, id |-> id]

\* a raw directive descriptor as parsed; src is its position in the source (0: synthesized)
Dir(type, name, value) ==
    [type |-> type, name |-> name, value |-> value, is_true |-> FALSE, synthetic |-> FALSE,
     modifiers |-> <<>>, can_make_passive |-> FALSE, intro |-> FALSE, outro |-> FALSE, src |-> 0]

TextChunk(data) == Node("Text", data, 0)
ExprChunk == Node("MustacheTag", <<>>, 0)

StaticAttr(name, data) == Dir("Attribute", name, <<TextChunk(data)>>)
DynamicAttr(name) == Dir("Attribute", name, <<ExprChunk>>)
BooleanAttr(name) == [Dir("Attribute", name, <<>>) EXCEPT !.is_true = TRUE]
Handler(name, modifiers, passivable) ==
    [Dir("EventHandler", name, <<>>) EXCEPT !.modifiers = modifiers, !.can_make_passive = passivable]

\* the descriptors numbered by source position
Numbered(ds) == [i \in Indices(ds) |-> [ds[i] EXCEPT !.src = i]]
NumberedNodes(ns) == [i \in Indices(ns) |-> [ns[i] EXCEPT !.id = i]]

\* sequences of at most n distinct elements of S
RECURSIVE SeqsUpTo(_, _)
SeqsUpTo(S, n) ==
    IF n = 0 THEN {<<>>}
    ELSE LET shorter == SeqsUpTo(S, n - 1)
         IN shorter \cup {Append(s, x) : s \in {t \in shorter : Len(t) = n - 1}, x \in S}

DistinctSeqsUpTo(S, n) == {s \in SeqsUpTo(S, n) : \A i, j \in Indices(s) : i # j => s[i] # s[j]}

\* ------------------------------------------------------------------ element state

\* class Element, fields as declared; an optional collaborator is a sequence of length 0 or 1
NewElement(name) ==
    [name |-> name, namespace |-> Undefined, attributes |-> <<>>, actions |-> <<>>,
     bindings |-> <<>>, classes |-> <<>>, styles |-> <<>>, handlers |-> <<>>, lets |-> <<>>,
     intro |-> <<>>, outro |-> <<>>, animation |-> <<>>, children |-> <<>>, scope |-> <<>>,
     needs_manual_style_scoping |-> FALSE, contains_a11y_label |-> FALSE,
     dynamic |-> FALSE]

\* component.error(node, e) throws: the compile stops with this one error, bound to node
NoError == [code |-> "", type |-> "", name |-> "", src |-> 0]
Error(code, node) == [code |-> code, type |-> node.type, name |-> node.name, src |-> node.src]
Fail(f, code, node) == [f EXCEPT !.error = Error(code, node), !.pc = "error"]
Failed(f) == f.pc = "error"

\* component.warn(node, w) records and goes on; on is the node's own name, arg what the
\* message quotes
Warn(f, code, on, arg) == [f EXCEPT !.warnings = Append(@, [code |-> code, on |-> on, arg |-> arg])]

\* one running constructor: raw is the descriptor as parsed and is never written; info is
\* the same descriptor as the constructor rewrites it; built lists the collaborators in
\* the order their constructors ran; stages lists the stages that have completed
NewFrame(info, scope) ==
    [raw |-> info, info |-> info, el |-> NewElement(info.name), pc |-> "start",
     scope |-> scope, built |-> <<>>, stages |-> <<>>, warnings |-> <<>>, error |-> NoError,
     css |-> "none"]

\* Node.find_nearest(/^Element/) from the parent: the constructor suspended last
NoElement == [exists |-> FALSE, name |-> "", namespace |-> Null]
ParentElement(stk) ==
    IF stk = <<>> THEN NoElement
    ELSE [exists |-> TRUE, name |-> Last(stk).el.name, namespace |-> Last(stk).el.namespace]

\* ------------------------------------------------------------------ namespace

get_namespace(parent_element, name, explicit_namespace) ==
    IF ~parent_element.exists
    THEN IF Truthy(explicit_namespace) THEN explicit_namespace
         ELSE IF is_svg(name) THEN NsSvg ELSE Null
    ELSE IF parent_element.namespace # NsForeign /\ is_svg(ToLowerCase(name)) THEN NsSvg
    ELSE IF parent_element.namespace # NsForeign
            /\ ToLowerCase(parent_element.name) = "foreignobject" THEN Null
    ELSE parent_element.namespace

\* constructor, up to the namespace: the name (a literal tag of svelte:element replaces it)
ResolveName(info) ==
    IF info.name = "svelte:element" /\ info.tag # "#expr" THEN info.tag ELSE info.name

ResolveNamespace(f, stk, comp) ==
    LET name == ResolveName(f.info)
    IN [f EXCEPT !.el.name = name,
                 !.el.dynamic = (name = "svelte:element"),
                 !.el.namespace = get_namespace(ParentElement(stk), name, comp.namespace),
                 !.stages = Append(@, "namespace"),
                 !.pc = "rewrite"]

\* ------------------------------------------------------------------ structural rewrite

\* data.replace(/^\r?\n/, '')
StripLeadingNewline(data) ==
    IF Len(data) >= 1 /\ data[1] = "\n" THEN Tail(data)
    ELSE IF Len(data) >= 2 /\ data[1] = "\r" /\ data[2] = "\n" THEN Tail(Tail(data))
    ELSE data

HasNamed(attributes, name) == Some(attributes, LAMBDA d : d.name = name)

\* pre and textarea: the first child, if text, loses one leading newline
RewriteFirstChild(info, name) ==
    IF name \in {"pre", "textarea"} /\ Len(info.children) > 0 /\ info.children[1].type = "Text"
    THEN [info EXCEPT !.children[1].data = StripLeadingNewline(@)]
    ELSE info

TextareaDuplicate(info, name) ==
    name = "textarea" /\ Len(info.children) > 0 /\ HasNamed(info.attributes, "value")

\* textarea: the children become a value attribute
RewriteTextarea(info, name) ==
    IF name = "textarea" /\ Len(info.children) > 0
    THEN [info EXCEPT !.attributes = Append(@, Dir("Attribute", "value", info.children)),
                      !.children = <<>>]
    ELSE info

\* option: without a value, a synthetic value attribute holding the children
RewriteOption(info, name) ==
    IF name = "option" /\ ~HasNamed(info.attributes, "value")
    THEN [info EXCEPT !.attributes =
              Append(@, [Dir("Attribute", "value", info.children) EXCEPT !.synthetic = TRUE])]
    ELSE info

RewriteApplies(namespace) == namespace # NsForeign

StructuralRewrite(f) ==
    IF ~RewriteApplies(f.el.namespace)
    THEN [f EXCEPT !.stages = Append(@, "rewrite"), !.pc = "partition"]
    ELSE LET stripped == RewriteFirstChild(f.info, f.el.name)
         IN IF TextareaDuplicate(stripped, f.el.name)
            THEN Fail([f EXCEPT !.info = stripped], "textarea_duplicate_value",
                      stripped.attributes[FindIndex(stripped.attributes,
                                                    LAMBDA d : d.name = "value")])
            ELSE [f EXCEPT !.info = RewriteOption(RewriteTextarea(stripped, f.el.name), f.el.name),
                           !.stages = Append(@, "rewrite"),
                           !.pc = "partition"]

\* ------------------------------------------------------------------ directive partition

\* TemplateScope: the chain of name sets, outermost first
ScopeChild(scope) == Append(scope, {})
ScopeAdd(scope, name) == [scope EXCEPT ![Len(scope)] = @ \cup {name}]
ScopeNames(scope) == UNION Range(scope)

\* order.indexOf(type) with order = ['Binding']
OrderIndex(type) == IF type = "Binding" THEN 0 ELSE -1
\* the comparator with its operands exchanged
CompareDirectivesExchanged(a, b) == OrderIndex(b.type) - OrderIndex(a.type)
CompareDirectives(a, b) == OrderIndex(a.type) - OrderIndex(b.type)

\* Array.prototype.sort with that comparator: a stable insertion of each element in turn
RECURSIVE SortDirectives(_)
SortDirectives(ds) ==
    IF ds = <<>> THEN <<>>
    ELSE LET rest == SortDirectives(Front(ds))
             x == Last(ds)
             k == Cardinality({i \in Indices(rest) : CompareDirectives(rest[i], x) <= 0})
         IN SubSeq(rest, 1, k) \o <<x>> \o SubSeq(rest, k + 1, Len(rest))

\* node.value[0].data: a TypeError when the value is true or empty, undefined when the
\* first chunk is an expression
XmlnsThrows(node) == node.is_true \/ node.value = <<>>
XmlnsData(node) == IF node.value[1].type = "Text" THEN node.value[1].data ELSE Undefined

\* what the log keeps of one collaborator's construction
Built(node, scope) ==
    [type |-> node.type, name |-> node.name, src |-> node.src,
     synthetic |-> node.synthetic, visible |-> ScopeNames(scope)]

KnownTypes ==
    {"Action", "Attribute", "Spread", "Binding", "Class", "StyleDirective", "EventHandler",
     "Let", "Transition", "Animation"}

\* one turn of info.attributes.forEach: the switch on node.type
BuildDirective(f, node) ==
    LET logged == [f EXCEPT !.built = Append(@, Built(node, f.scope))]
    IN CASE node.type = "Action" -> [logged EXCEPT !.el.actions = Append(@, node)]
         [] node.type \in {"Attribute", "Spread"} ->
              IF node.name = "xmlns"
              THEN IF XmlnsThrows(node)
                   THEN Fail(f, "TypeError", node)
                   ELSE [logged EXCEPT !.el.namespace = XmlnsData(node),
                                       !.el.attributes = Append(@, node)]
              ELSE [logged EXCEPT !.el.attributes = Append(@, node)]
         [] node.type = "Binding" -> [logged EXCEPT !.el.bindings = Append(@, node)]
         [] node.type = "Class" -> [logged EXCEPT !.el.classes = Append(@, node)]
         [] node.type = "StyleDirective" -> [logged EXCEPT !.el.styles = Append(@, node)]
         [] node.type = "EventHandler" -> [logged EXCEPT !.el.handlers = Append(@, node)]
         [] node.type = "Let" ->
              [logged EXCEPT !.el.lets = Append(@, node), !.scope = ScopeAdd(@, node.name)]
         [] node.type = "Transition" ->
              [logged EXCEPT !.el.intro = IF node.intro THEN <<node>> ELSE @,
                             !.el.outro = IF node.outro THEN <<node>> ELSE @]
         [] node.type = "Animation" -> [logged EXCEPT !.el.animation = <<node>>]
         [] OTHER -> Fail(f, "Not implemented", node)

RECURSIVE BuildFrom(_, _)
BuildFrom(f, i) ==
    IF Failed(f) \/ i > Len(f.info.attributes) THEN f
    ELSE BuildFrom(BuildDirective(f, f.info.attributes[i]), i + 1)

\* the partition without scope.child(): the names go into the scope handed in
PartitionDirectivesSharedScope(f) ==
    LET scoped == [f EXCEPT !.info.attributes = SortDirectives(@)]
        done == BuildFrom(scoped, 1)
    IN IF Failed(done) THEN done
       ELSE [done EXCEPT !.el.scope = done.scope,
                         !.stages = Append(@, "partition"),
                         !.pc = "children"]

PartitionDirectives(f) ==
    LET has_let == Some(f.info.attributes, LAMBDA d : d.type = "Let")
        scoped == [f EXCEPT !.scope = IF has_let THEN ScopeChild(@) ELSE @,
                            !.info.attributes = SortDirectives(@)]
        done == BuildFrom(scoped, 1)
    IN IF Failed(done) THEN done
       ELSE [done EXCEPT !.el.scope = done.scope,
                         !.stages = Append(@, "partition"),
                         !.pc = "children"]

\* ------------------------------------------------------------------ collaborators

\* Attribute: is_spread, is_true, is_static, get_static_value()
True == <<"#true">>
is_spread(a) == a.type = "Spread"
is_static(a) == ~is_spread(a) /\ \A i \in Indices(a.value) : a.value[i].type = "Text"
get_static_value(a) ==
    IF is_spread(a) \/ ~is_static(a) THEN Null
    ELSE IF a.is_true THEN True
    ELSE IF a.value # <<>> THEN a.value[1].data ELSE <<>>

\* new Map of name -> attribute: the last attribute of a name wins
HasAttribute(el, name) == Some(el.attributes, LAMBDA a : a.name = name)
AttributeOf(el, name) ==
    el.attributes[CHOOSE i \in Indices(el.attributes) :
        /\ el.attributes[i].name = name
        /\ \A j \in (i + 1)..Len(el.attributes) : el.attributes[j].name # name]
HasHandler(el, name) == Some(el.handlers, LAMBDA h : h.name = name)
\* Array.prototype.find: the first attribute of a name
FirstAttribute(el, name) == el.attributes[FindIndex(el.attributes, LAMBDA a : a.name = name)]

\* the ancestors of the running constructor's element, nearest first
Wrapper(type) == [type |-> type, name |-> ""]
Reverse(s) == [i \in Indices(s) |-> s[Len(s) + 1 - i]]
RECURSIVE AncestorsOf(_, _)
AncestorsOf(stk, via) ==
    [i \in Indices(via) |-> Wrapper(Reverse(via)[i])]
    \o (IF stk = <<>> THEN <<Wrapper("Fragment")>>
        ELSE <<[type |-> "Element", name |-> Last(stk).el.name]>>
             \o AncestorsOf(Front(stk), Last(stk).info.via))

\* ------------------------------------------------------------------ validate_attributes

WarnIf(f, cond, code, on, arg) == IF cond THEN Warn(f, code, on, arg) ELSE f
FailIf(f, cond, code, node) == IF cond THEN Fail(f, code, node) ELSE f

\* regex_illegal_attribute_character on the attribute names of the corpora
IllegalAttributeName(name) == name \in {"a$b", "1a"}
\* regex_minus_sign
HasMinus(name) == name \in {"my-el"}

RECURSIVE within_custom_element(_)
within_custom_element(ancestors) ==
    IF ancestors = <<>> THEN FALSE
    ELSE IF Head(ancestors).type = "InlineComponent" THEN FALSE
    ELSE IF Head(ancestors).type = "Element" /\ HasMinus(Head(ancestors).name) THEN TRUE
    ELSE within_custom_element(Tail(ancestors))

react_attributes(name) == IF name = "className" THEN "class" ELSE IF name = "htmlFor" THEN "for" ELSE ""

\* the warnings of one attribute: skipped in the foreign namespace
AttributeWarnings(f, attribute) ==
    WarnIf(WarnIf(f, f.el.namespace # NsForeign /\ ToLowerCase(attribute.name) = "is",
                  "avoid-is", attribute.name, ""),
           f.el.namespace # NsForeign /\ react_attributes(attribute.name) # "",
           "invalid-html-attribute", attribute.name, react_attributes(attribute.name))

\* one turn of this.attributes.forEach
ValidateAttribute(f, attribute, ancestors, comp) ==
    LET name == ToLowerCase(attribute.name)
    IN IF is_spread(attribute) THEN f
       ELSE IF IllegalAttributeName(name) THEN Fail(f, "illegal-attribute-character", attribute)
       ELSE IF name = "slot" /\ ~is_static(attribute)
            THEN Fail(f, "invalid-slot-attribute", attribute)
       ELSE IF name = "slot" /\ name \in comp.slot_outlets
            THEN Fail(f, "duplicate-slot-attribute", attribute)
       ELSE IF name = "slot" /\ ~(Head(ancestors).type = "SlotTemplate"
                                  \/ within_custom_element(ancestors))
            THEN Fail(f, "invalid-slotted-content", attribute)
       ELSE AttributeWarnings(f, attribute)

RECURSIVE ValidateAttributesFrom(_, _, _, _)
ValidateAttributesFrom(f, i, ancestors, comp) ==
    IF Failed(f) \/ i > Len(f.el.attributes) THEN f
    ELSE ValidateAttributesFrom(ValidateAttribute(f, f.el.attributes[i], ancestors, comp),
                                i + 1, ancestors, comp)

validate_attributes(f, ancestors, comp) == ValidateAttributesFrom(f, 1, ancestors, comp)

\* ------------------------------------------------------------------ validate_event_handlers

valid_modifiers ==
    {"preventDefault", "stopPropagation", "capture", "once", "passive", "nonpassive", "self",
     "trusted"}
passive_events == {"wheel", "touchstart", "touchmove", "touchend", "touchcancel"}

Has(modifiers, m) == m \in Range(modifiers)
\* Set.prototype.add
AddModifier(modifiers, m) == IF Has(modifiers, m) THEN modifiers ELSE Append(modifiers, m)

\* the warnings of a passive modifier
PassiveWarnings(f, handler, modifier) ==
    WarnIf(WarnIf(f, /\ modifier = "passive"
                     /\ handler.name \in passive_events
                     /\ handler.can_make_passive,
                  "redundant-event-modifier", handler.name, "touch"),
           modifier = "passive" /\ handler.name \notin passive_events,
           "redundant-event-modifier", handler.name, "passive")

\* one turn of handler.modifiers.forEach, on handler number h
CheckModifier(f, h, modifier, comp) ==
    IF modifier \notin valid_modifiers
    THEN Fail(f, "invalid-event-modifier", f.el.handlers[h])
    ELSE FailIf(PassiveWarnings(f, f.el.handlers[h], modifier),
                comp.legacy /\ modifier \in {"once", "passive"},
                "invalid-event-modifier-legacy", f.el.handlers[h])

RECURSIVE CheckModifiersFrom(_, _, _, _)
CheckModifiersFrom(f, h, i, comp) ==
    IF Failed(f) \/ i > Len(f.el.handlers[h].modifiers) THEN f
    ELSE CheckModifiersFrom(CheckModifier(f, h, f.el.handlers[h].modifiers[i], comp), h, i + 1, comp)

\* the upgrade without the test of preventDefault
MakesPassiveDespitePrevent(handler) ==
    /\ handler.name \in passive_events
    /\ handler.can_make_passive
    /\ ~Has(handler.modifiers, "nonpassive")

\* touch/wheel events should be passive by default
MakesPassive(handler) ==
    /\ handler.name \in passive_events
    /\ handler.can_make_passive
    /\ ~Has(handler.modifiers, "preventDefault")
    /\ ~Has(handler.modifiers, "nonpassive")

\* the upgrade storing passive in place of the modifiers written
AutoPassiveAlone(f, h) ==
    IF ~Failed(f) /\ MakesPassive(f.el.handlers[h])
    THEN [f EXCEPT !.el.handlers[h].modifiers = <<"passive">>]
    ELSE f

AutoPassive(f, h) ==
    IF ~Failed(f) /\ MakesPassive(f.el.handlers[h])
    THEN [f EXCEPT !.el.handlers[h].modifiers = AddModifier(@, "passive")]
    ELSE f

\* the combination test without its second half
BadCombinationPreventOnly(modifiers) ==
    Has(modifiers, "passive") /\ Has(modifiers, "preventDefault")

\* passive with preventDefault, or passive with nonpassive
BadCombination(modifiers) ==
    \/ Has(modifiers, "passive") /\ Has(modifiers, "preventDefault")
    \/ Has(modifiers, "passive") /\ Has(modifiers, "nonpassive")

\* one turn of this.handlers.forEach
ValidateHandler(f, h, comp) ==
    IF BadCombination(f.el.handlers[h].modifiers)
    THEN Fail(f, "invalid-event-modifier-combination", f.el.handlers[h])
    ELSE AutoPassive(CheckModifiersFrom(f, h, 1, comp), h)

RECURSIVE ValidateHandlersFrom(_, _, _)
ValidateHandlersFrom(f, h, comp) ==
    IF Failed(f) \/ h > Len(f.el.handlers) THEN f
    ELSE ValidateHandlersFrom(ValidateHandler(f, h, comp), h + 1, comp)

validate_event_handlers(f, comp) == ValidateHandlersFrom(f, 1, comp)

\* ------------------------------------------------------------------ validate_bindings

validate_bindings_foreign_one(f, binding) ==
    FailIf(f, binding.name # "this", "invalid-binding-foreign", binding)

RECURSIVE ValidateBindingsForeignFrom(_, _)
ValidateBindingsForeignFrom(f, i) ==
    IF Failed(f) \/ i > Len(f.el.bindings) THEN f
    ELSE ValidateBindingsForeignFrom(validate_bindings_foreign_one(f, f.el.bindings[i]), i + 1)

validate_bindings_foreign(f) == ValidateBindingsForeignFrom(f, 1)

\* check_type_attribute: the static value of the first type attribute, null without one;
\* throws on a dynamic type and on a type without a value
TypeChecked(f, attribute) ==
    IF ~is_static(attribute) THEN [f |-> Fail(f, "invalid-type", attribute), value |-> Null]
    ELSE IF get_static_value(attribute) = True
    THEN [f |-> Fail(f, "missing-type", attribute), value |-> Null]
    ELSE [f |-> f, value |-> get_static_value(attribute)]

check_type_attribute(f) ==
    IF ~HasAttribute(f.el, "type") THEN [f |-> f, value |-> Null]
    ELSE TypeChecked(f, FirstAttribute(f.el, "type"))

MediaBindings ==
    {"currentTime", "duration", "paused", "buffered", "seekable", "played", "volume", "muted",
     "playbackRate", "seeking", "ended"}
\* regex_dimensions
DimensionBindings == {"clientWidth", "clientHeight", "offsetWidth", "offsetHeight"}

\* the checked test accepting a radio input as well
RequiredTypesRadioChecked(name) ==
    CASE name \in {"checked", "indeterminate"} -> {<<"checkbox">>, <<"radio">>}
      [] name = "group" -> {<<"checkbox">>, <<"radio">>}
      [] name = "files" -> {<<"file">>}

\* the static type values a binding name accepts on its input
RequiredTypes(name) ==
    CASE name \in {"checked", "indeterminate"} -> {<<"checkbox">>}
      [] name = "group" -> {<<"checkbox">>, <<"radio">>}
      [] name = "files" -> {<<"file">>}

TypeErrorCode(name) ==
    IF name \in {"checked", "indeterminate"} THEN "invalid-binding-no-checkbox"
    ELSE "invalid-binding-element-with"

\* const type = check_type_attribute(); if (type !== ...) error
RequireType(typed, binding) ==
    IF Failed(typed.f) THEN typed.f
    ELSE FailIf(typed.f, typed.value \notin RequiredTypes(binding.name),
                TypeErrorCode(binding.name), binding)

\* one turn of this.bindings.forEach
ValidateBinding(f, binding) ==
    LET name == binding.name
        el == f.el
    IN CASE name = "value" ->
              IF el.name \notin {"input", "textarea", "select"}
              THEN Fail(f, "invalid-binding-elements", binding)
              ELSE IF el.name = "select"
              THEN IF HasAttribute(el, "multiple") /\ ~is_static(FirstAttribute(el, "multiple"))
                   THEN Fail(f, "dynamic-multiple-attribute", FirstAttribute(el, "multiple"))
                   ELSE f
              ELSE check_type_attribute(f).f
         [] name \in {"checked", "indeterminate", "group", "files"} ->
              IF el.name # "input" THEN Fail(f, "invalid-binding-elements", binding)
              ELSE RequireType(check_type_attribute(f), binding)
         [] name = "open" ->
              FailIf(f, el.name # "details", "invalid-binding-element-with", binding)
         [] name \in MediaBindings ->
              FailIf(f, el.name \notin {"audio", "video"}, "invalid-binding-element-with", binding)
         [] name \in {"videoHeight", "videoWidth"} ->
              FailIf(f, el.name # "video", "invalid-binding-element-with", binding)
         [] name \in DimensionBindings ->
              FailIf(f, is_svg(el.name) \/ is_void(el.name), "invalid-binding-on", binding)
         [] name \in {"textContent", "innerHTML"} ->
              IF ~HasAttribute(el, "contenteditable")
              THEN Fail(f, "missing-contenteditable-attribute", binding)
              ELSE FailIf(f, ~is_static(FirstAttribute(el, "contenteditable")),
                          "dynamic-contenteditable-attribute",
                          FirstAttribute(el, "contenteditable"))
         [] name = "this" -> f
         [] OTHER -> Fail(f, "invalid-binding", binding)

RECURSIVE ValidateBindingsFrom(_, _)
ValidateBindingsFrom(f, i) ==
    IF Failed(f) \/ i > Len(f.el.bindings) THEN f
    ELSE ValidateBindingsFrom(ValidateBinding(f, f.el.bindings[i]), i + 1)

validate_bindings(f) == ValidateBindingsFrom(f, 1)

\* ------------------------------------------------------------------ validate_content

a11y_required_content == {"a", "h1", "h2", "h3", "h4", "h5", "h6"}

validate_content(f) ==
    WarnIf(f, /\ ~Failed(f)
              /\ f.el.name \in a11y_required_content
              /\ ~f.el.contains_a11y_label
              /\ ~Some(f.el.bindings, LAMBDA b : b.name \in {"textContent", "innerHTML"})
              /\ Len(f.el.children) = 0,
           "a11y-missing-content", f.el.name, "")

\* ------------------------------------------------------------------ validate_attributes_a11y

IsWhitespace(c) == c \in {" ", "\n", "\t", "\r"}

\* value.split(/[\s]+/): the words of a string; a blank at either end gives an empty word
RECURSIVE SplitFrom(_, _, _, _)
SplitFrom(data, i, words, in_blank) ==
    IF i > Len(data) THEN words
    ELSE IF IsWhitespace(data[i])
    THEN SplitFrom(data, i + 1, IF in_blank THEN words ELSE Append(words, ""), TRUE)
    ELSE SplitFrom(data, i + 1, [words EXCEPT ![Len(words)] = data[i]], FALSE)

Split(data) == SplitFrom(data, 1, <<"">>, FALSE)

invisible_elements == {"meta", "html", "script", "style"}
aria_attribute_set == {"hidden", "label", "labelledby", "checked", "level", "activedescendant"}
\* name.startsWith('aria-') and name.slice(5), on the attribute names of the corpora
IsAriaName(name) ==
    name \in {"aria-hidden", "aria-label", "aria-labelledby", "aria-checked", "aria-level",
              "aria-activedescendant", "aria-bogus"}
AriaType(name) ==
    CASE name = "aria-hidden" -> "hidden"
      [] name = "aria-label" -> "label"
      [] name = "aria-labelledby" -> "labelledby"
      [] name = "aria-checked" -> "checked"
      [] name = "aria-level" -> "level"
      [] name = "aria-activedescendant" -> "activedescendant"
      [] OTHER -> "bogus"
regex_heading_tags == {"h1", "h2", "h3", "h4", "h5", "h6"}

\* aria-query: the roles, the abstract ones, and the properties a role requires
aria_role_set ==
    {"button", "link", "presentation", "none", "heading", "banner", "contentinfo", "checkbox",
     "textbox", "img", "article", "region", "widget", "command"}
aria_role_abstract_set == {"widget", "command"}
RequiredProps(role) ==
    CASE role = "checkbox" -> {"aria-checked"}
      [] role = "heading" -> {"aria-level"}
      [] OTHER -> {}

a11y_implicit_semantics(name) ==
    CASE name = "a" -> "link"
      [] name \in regex_heading_tags -> "heading"
      [] name = "section" -> "region"
      [] name = "textarea" -> "textbox"
      [] name = "details" -> "group"
      [] OTHER -> "#none"
\* the nested table filled from the plain one
a11y_nested_implicit_semantics_copied(name) == a11y_implicit_semantics(name)
a11y_nested_implicit_semantics(name) ==
    CASE name = "header" -> "banner"
      [] name = "footer" -> "contentinfo"
      [] OTHER -> "#none"

\* utils/a11y
StaticIs(el, name, data) == HasAttribute(el, name) /\ get_static_value(AttributeOf(el, name)) = data
is_interactive_element(el) ==
    \/ el.name \in {"button", "select", "textarea"}
    \/ el.name = "input" /\ ~StaticIs(el, "type", <<"hidden">>)
    \/ el.name = "a" /\ HasAttribute(el, "href")
is_presentation_role(role) == role \in {"presentation", "none"}
is_non_interactive_roles(role) == role \in {"heading", "banner", "contentinfo", "img", "article", "region"}
is_interactive_roles(role) == role \in {"button", "link", "checkbox", "textbox"}
is_hidden_from_screen_reader(el) ==
    \/ el.name = "input" /\ StaticIs(el, "type", <<"hidden">>)
    \/ HasAttribute(el, "aria-hidden")
       /\ (~is_static(AttributeOf(el, "aria-hidden"))
           \/ get_static_value(AttributeOf(el, "aria-hidden")) \in {True, <<"true">>})
is_semantic_role_element(role, el) ==
    \/ role = "checkbox" /\ el.name = "input" /\ StaticIs(el, "type", <<"checkbox">>)
    \/ role = "heading" /\ el.name \in regex_heading_tags

\* is_parent(parent, elements): a name of elements among the ancestors up to the first Element
RECURSIVE is_parent(_, _)
is_parent(ancestors, elements) ==
    IF ancestors = <<>> THEN FALSE
    ELSE IF Head(ancestors).name \in elements THEN TRUE
    ELSE IF Head(ancestors).type = "Element" THEN FALSE
    ELSE is_parent(Tail(ancestors), elements)

\* the role a string static value names, for the lookups that take the whole value
RoleOf(value) == IF Len(value) = 1 THEN value[1] ELSE "#none"

\* is_valid_aria_attribute_value for the schema of the property: hidden is boolean,
\* checked tristate, level integer, the others strings or ids
IsNumeral(value) == value \in {<<"0">>, <<"1">>, <<"2">>, <<"-1">>}
AriaValueValid(type, value) ==
    LET truth == IF value \in {<<"true">>, <<"false">>} THEN True ELSE value
    IN CASE type = "hidden" -> truth = True
         [] type = "checked" -> truth = True \/ truth = <<"mixed">>
         [] type = "level" -> truth # True /\ (IsNumeral(truth) \/ truth = <<>>)
         [] OTHER -> truth # True

\* one word of a static role value
CheckRole(f, attribute, current_role, ancestors) ==
    WarnIf(WarnIf(WarnIf(WarnIf(WarnIf(WarnIf(f,
        current_role # "" /\ current_role \in aria_role_abstract_set,
        "a11y-no-abstract-role", attribute.name, current_role),
        current_role # "" /\ current_role \notin aria_role_abstract_set
            /\ current_role \notin aria_role_set,
        "a11y-unknown-role", attribute.name, current_role),
        f.el.name = current_role \/ current_role = a11y_implicit_semantics(f.el.name),
        "a11y-no-redundant-roles", attribute.name, current_role),
        ~is_parent(ancestors, {"section", "article"})
            /\ current_role = a11y_nested_implicit_semantics(f.el.name),
        "a11y-no-redundant-roles", attribute.name, current_role),
        /\ ~is_semantic_role_element(current_role, f.el)
        /\ current_role \in aria_role_set
        /\ \E prop \in RequiredProps(current_role) : ~HasAttribute(f.el, prop),
        "a11y-role-has-required-aria-props", attribute.name, current_role),
        /\ is_interactive_element(f.el)
        /\ (is_non_interactive_roles(current_role) \/ is_presentation_role(current_role)),
        "a11y-no-interactive-element-to-noninteractive-role", f.el.name, current_role)

RECURSIVE CheckRolesFrom(_, _, _, _, _)
CheckRolesFrom(f, attribute, words, i, ancestors) ==
    IF i > Len(words) THEN f
    ELSE CheckRolesFrom(CheckRole(f, attribute, words[i], ancestors), attribute, words, i + 1,
                        ancestors)

\* aria-props
CheckAria(f, attribute, name) ==
    WarnIf(WarnIf(WarnIf(WarnIf(WarnIf(f,
        f.el.name \in invisible_elements,
        "a11y-aria-attributes", attribute.name, f.el.name),
        AriaType(name) \notin aria_attribute_set,
        "a11y-unknown-aria-attribute", attribute.name, AriaType(name)),
        name = "aria-hidden" /\ f.el.name \in regex_heading_tags,
        "a11y-hidden", attribute.name, f.el.name),
        /\ get_static_value(attribute) # Null
        /\ AriaType(name) \in aria_attribute_set
        /\ ~AriaValueValid(AriaType(name), get_static_value(attribute)),
        "a11y-incorrect-aria-attribute-type", attribute.name, AriaType(name)),
        /\ name = "aria-activedescendant"
        /\ ~is_interactive_element(f.el)
        /\ ~HasAttribute(f.el, "tabindex"),
        "a11y-aria-activedescendant-has-tabindex", attribute.name, "")

AriaRules(f, attribute, name) ==
    IF IsAriaName(name) THEN CheckAria(f, attribute, name) ELSE f

\* aria-role
RoleRules(f, attribute, name, ancestors) ==
    IF name = "role" /\ get_static_value(attribute) \notin {Null, True}
    THEN CheckRolesFrom(f, attribute, Split(get_static_value(attribute)), 1, ancestors)
    ELSE f

\* one turn of attributes.forEach
CheckA11yAttribute(f, attribute, ancestors) ==
    LET name == ToLowerCase(attribute.name)
    IN IF is_spread(attribute) THEN f
       ELSE WarnIf(WarnIf(WarnIf(WarnIf(
                RoleRules(
                    WarnIf(AriaRules(f, attribute, name),
                           name = "role" /\ f.el.name \in invisible_elements,
                           "a11y-misplaced-role", attribute.name, f.el.name),
                    attribute, name, ancestors),
                name = "accesskey", "a11y-accesskey", attribute.name, ""),
                name = "autofocus", "a11y-autofocus", attribute.name, ""),
                name = "scope" /\ f.el.name # "th", "a11y-misplaced-scope", attribute.name, ""),
                name = "tabindex" /\ get_static_value(attribute) \in {True, <<"1">>, <<"2">>},
                "a11y-positive-tabindex", attribute.name, "")

RECURSIVE CheckA11yFrom(_, _, _)
CheckA11yFrom(f, i, ancestors) ==
    IF i > Len(f.el.attributes) THEN f
    ELSE CheckA11yFrom(CheckA11yAttribute(f, f.el.attributes[i], ancestors), i + 1, ancestors)

\* the static role of the role attribute, for the checks that take the whole value
StaticRole(el) ==
    IF HasAttribute(el, "role") THEN RoleOf(get_static_value(AttributeOf(el, "role")))
    ELSE "#none"

ClickEventsHaveKeyEvents(f) ==
    WarnIf(f, /\ HasHandler(f.el, "click")
              /\ ~is_hidden_from_screen_reader(f.el)
              /\ (~HasAttribute(f.el, "role")
                  \/ (is_static(AttributeOf(f.el, "role"))
                      /\ ~is_presentation_role(StaticRole(f.el))))
              /\ ~is_interactive_element(f.el)
              /\ ~Some(f.el.attributes, is_spread)
              /\ ~(HasHandler(f.el, "keydown") \/ HasHandler(f.el, "keyup")
                   \/ HasHandler(f.el, "keypress")),
           "a11y-click-events-have-key-events", f.el.name, "")

\* Number(v) >= 0 of a static value: true is 1, the empty string 0, a word NaN
NonNegativeNumber(value) == value \in {True, <<>>, <<"0">>, <<"1">>, <<"2">>}

NoNoninteractiveTabindex(f) ==
    WarnIf(f, /\ ~is_interactive_element(f.el)
              /\ ~is_interactive_roles(StaticRole(f.el))
              /\ HasAttribute(f.el, "tabindex")
              /\ (~is_static(AttributeOf(f.el, "tabindex"))
                  \/ NonNegativeNumber(get_static_value(AttributeOf(f.el, "tabindex")))),
           "a11y-no-noninteractive-tabindex", f.el.name, "")

validate_attributes_a11y(f, ancestors) ==
    NoNoninteractiveTabindex(ClickEventsHaveKeyEvents(CheckA11yFrom(f, 1, ancestors)))

\* ------------------------------------------------------------------ validate_special_cases

\* a child as built by map_children: an Element child carries its element
BuiltChild(node, el) == [type |-> node.type, data |-> node.data, id |-> node.id, el |-> el]
LeafChild(node) == BuiltChild(node, NewElement(""))

a11y_required_attributes(name) ==
    CASE name = "a" -> <<"href">>
      [] name = "area" -> <<"alt", "aria-label", "aria-labelledby">>
      [] name = "html" -> <<"lang">>
      [] name = "iframe" -> <<"title">>
      [] name = "img" -> <<"alt">>
      [] name = "object" -> <<"title", "aria-label", "aria-labelledby">>
      [] OTHER -> <<>>
a11y_distracting_elements == {"blink", "marquee"}
a11y_labelable == {"button", "input", "keygen", "meter", "output", "progress", "select", "textarea"}

\* href: /^(https?:)?\/\//i and /^\W*javascript:/i on the values of the corpora
IsAbsoluteUrl(value) == value \in {<<"//x">>, <<"https://x">>}
IsJavascriptUrl(value) == value = <<"javascript:">>
\* /\b(image|picture|photo)\b/i
HasImageWord(value) == \E i \in Indices(value) : value[i] \in {"image", "picture", "photo"}
\* regex_non_whitespace_character
HasNonWhitespace(data) == \E i \in Indices(data) : ~IsWhitespace(data[i])

\* attribute_map.get('href') || attribute_map.get('xlink:href')
HasHref(el) == HasAttribute(el, "href") \/ HasAttribute(el, "xlink:href")
Href(el) == IF HasAttribute(el, "href") THEN AttributeOf(el, "href") ELSE AttributeOf(el, "xlink:href")
ValidFallback(el, name) == HasAttribute(el, name) /\ get_static_value(AttributeOf(el, name)) # <<>>

SecurityAnchorRel(f, comp) ==
    WarnIf(f, /\ comp.legacy
              /\ HasAttribute(f.el, "target")
              /\ get_static_value(AttributeOf(f.el, "target")) = <<"_blank">>
              /\ HasHref(f.el)
              /\ (~Truthy(get_static_value(Href(f.el)))
                  \/ IsAbsoluteUrl(get_static_value(Href(f.el))))
              /\ (~HasAttribute(f.el, "rel") \/ is_static(AttributeOf(f.el, "rel")))
              /\ (~HasAttribute(f.el, "rel")
                  \/ ~Has(Split(get_static_value(AttributeOf(f.el, "rel"))), "noreferrer")),
           "security-anchor-rel-noreferrer", f.el.name, "")

AnchorLabel(f) ==
    IF HasAttribute(f.el, "aria-label") /\ get_static_value(AttributeOf(f.el, "aria-label")) # <<>>
    THEN [f EXCEPT !.el.contains_a11y_label = TRUE]
    ELSE f

AnchorHref(f) ==
    IF HasHref(f.el)
    THEN WarnIf(f, \/ get_static_value(Href(f.el)) \in {<<>>, <<"#">>}
                   \/ IsJavascriptUrl(get_static_value(Href(f.el))),
                "a11y-invalid-attribute", Href(f.el).name, "")
    ELSE WarnIf(f, ~ValidFallback(f.el, "id") /\ ~ValidFallback(f.el, "name"),
                "a11y-missing-attribute", f.el.name, "href")

AnchorCase(f, comp) == AnchorHref(AnchorLabel(SecurityAnchorRel(f, comp)))

RequiredAttributesCase(f) ==
    WarnIf(f, /\ a11y_required_attributes(f.el.name) # <<>>
              /\ ~\E i \in Indices(a11y_required_attributes(f.el.name)) :
                     HasAttribute(f.el, a11y_required_attributes(f.el.name)[i]),
           "a11y-missing-attribute", f.el.name, "required")

InputImageCase(f) ==
    WarnIf(f, /\ f.el.name = "input"
              /\ StaticIs(f.el, "type", <<"image">>)
              /\ ~\E name \in {"alt", "aria-label", "aria-labelledby"} : HasAttribute(f.el, name),
           "a11y-missing-attribute", "input type=\"image\"", "required")

ImgCase(f) ==
    WarnIf(f, /\ f.el.name = "img"
              /\ HasAttribute(f.el, "alt")
              /\ ~(HasAttribute(f.el, "aria-hidden")
                   /\ Truthy(get_static_value(AttributeOf(f.el, "aria-hidden"))))
              /\ HasImageWord(get_static_value(AttributeOf(f.el, "alt"))),
           "a11y-img-redundant-alt", f.el.name, "")

\* has_input_child, to the depth the built tree has
RECURSIVE has_input_child(_)
has_input_child(children) ==
    \/ \E i \in Indices(children) :
          children[i].type = "Element"
          /\ (children[i].el.name \in a11y_labelable \/ children[i].el.name = "slot")
    \/ \E i \in Indices(children) :
          children[i].type = "Element" /\ Len(children[i].el.children) > 0
          /\ has_input_child(children[i].el.children)

LabelCase(f) ==
    WarnIf(f, f.el.name = "label" /\ ~HasAttribute(f.el, "for") /\ ~has_input_child(f.el.children),
           "a11y-label-has-associated-control", f.el.name, "")

\* video: true when the method returns from inside this case
VideoReturns(el) ==
    /\ el.name = "video"
    /\ \/ HasAttribute(el, "muted")
       \/ StaticIs(el, "aria-hidden", <<"true">>)

IsTrack(c) == c.type = "Element" /\ c.el.name = "track"
IsCaptions(a) == a.name = "kind" /\ get_static_value(a) = <<"captions">>
HasCaption(el) ==
    /\ Some(el.children, IsTrack)
    /\ Some(el.children[FindIndex(el.children, IsTrack)].el.attributes, IsCaptions)

VideoCase(f) ==
    WarnIf(f, f.el.name = "video" /\ ~HasCaption(f.el), "a11y-media-has-caption", f.el.name, "")

DistractingCase(f) ==
    WarnIf(f, f.el.name \in a11y_distracting_elements, "a11y-distracting-elements", f.el.name, "")

FigcaptionCase(f, ancestors) ==
    WarnIf(f, f.el.name = "figcaption" /\ ~is_parent(ancestors, {"figure"}),
           "a11y-structure", f.el.name, "immediate")

IsFigcaption(c) == c.type = "Element" /\ c.el.name = "figcaption"
Meaningful(c) == c.type # "Comment" /\ (c.type = "Text" => HasNonWhitespace(c.data))
FigcaptionIndex(el) == FindIndex(SelectSeq(el.children, Meaningful), IsFigcaption)

FigureCase(f) ==
    WarnIf(f, /\ f.el.name = "figure"
              /\ FigcaptionIndex(f.el) \notin {0, 1, Len(SelectSeq(f.el.children, Meaningful))},
           "a11y-structure", "figcaption", "first-or-last")

MouseEventsCase(f) ==
    WarnIf(WarnIf(f, HasHandler(f.el, "mouseover") /\ ~HasHandler(f.el, "focus"),
                  "a11y-mouse-events-have-key-events", f.el.name, "mouseover"),
           HasHandler(f.el, "mouseout") /\ ~HasHandler(f.el, "blur"),
           "a11y-mouse-events-have-key-events", f.el.name, "mouseout")

\* the cases up to video
HeadCases(f, comp) ==
    LabelCase(ImgCase(InputImageCase(
        IF f.el.name = "a" THEN AnchorCase(f, comp) ELSE RequiredAttributesCase(f))))

\* the cases from video on, unless the video case returned
TailCases(f, ancestors) ==
    IF VideoReturns(f.el) THEN f
    ELSE MouseEventsCase(FigureCase(FigcaptionCase(DistractingCase(VideoCase(f)), ancestors)))

validate_special_cases(f, ancestors, comp) == TailCases(HeadCases(f, comp), ancestors)

\* ------------------------------------------------------------------ validate

IsForeign(el) == el.namespace = NsForeign

\* the rule groups of a host or vector-graphics element
ValidateHost(f, ancestors, comp) ==
    validate_content(validate_bindings(
        validate_special_cases(validate_attributes_a11y(f, ancestors), ancestors, comp)))

\* validate() without the test of the foreign namespace
ValidateRestEverywhere(f, ancestors, comp) ==
    IF Failed(f) THEN f ELSE ValidateHost(f, ancestors, comp)

ValidateRest(f, ancestors, comp) ==
    IF Failed(f) THEN f
    ELSE IF IsForeign(f.el) THEN validate_bindings_foreign(f)
    ELSE ValidateHost(f, ancestors, comp)

ComponentNameLowercase(f, comp) ==
    WarnIf(f, f.el.name \in comp.imported /\ ~is_svg(f.el.name) /\ ~is_html(f.el.name),
           "component-name-lowercase", f.el.name, "")

ValidateHandlers(f, comp) == IF Failed(f) THEN f ELSE validate_event_handlers(f, comp)

Validated(f) ==
    IF Failed(f) THEN f ELSE [f EXCEPT !.stages = Append(@, "validate"), !.pc = "optimise"]

validate(f, ancestors, comp) ==
    Validated(ValidateRest(
        ValidateHandlers(validate_attributes(ComponentNameLowercase(f, comp), ancestors, comp),
                         comp),
        ancestors, comp))

\* ------------------------------------------------------------------ optimise, add_css_class

attributes_to_compact_whitespace == <<"class", "style">>

\* data.replace(/[\s]+/g, ' ')
RECURSIVE CollapseFrom(_, _, _)
CollapseFrom(data, i, out) ==
    IF i > Len(data) THEN out
    ELSE IF IsWhitespace(data[i])
    THEN CollapseFrom(data, i + 1,
                      IF i > 1 /\ IsWhitespace(data[i - 1]) THEN out ELSE Append(out, " "))
    ELSE CollapseFrom(data, i + 1, Append(out, data[i]))

Collapse(data) == CollapseFrom(data, 1, <<>>)

RECURSIVE trimLeft(_)
trimLeft(data) ==
    IF data # <<>> /\ IsWhitespace(Head(data)) THEN trimLeft(Tail(data)) ELSE data
RECURSIVE trimRight(_)
trimRight(data) ==
    IF data # <<>> /\ IsWhitespace(Last(data)) THEN trimRight(Front(data)) ELSE data

CompactChunk(chunk, index, length) ==
    IF chunk.type # "Text" THEN chunk
    ELSE LET data == Collapse(chunk.data)
         IN [chunk EXCEPT !.data = IF index = 1 THEN trimLeft(data)
                                   ELSE IF index = length THEN trimRight(data)
                                   ELSE data]

CompactAttribute(el, attribute_name) ==
    LET i == FindIndex(el.attributes, LAMBDA a : a.name = attribute_name)
    IN IF i # 0 /\ ~el.attributes[i].is_true
       THEN [el EXCEPT !.attributes[i].value =
                [k \in Indices(@) |-> CompactChunk(@[k], k, Len(@))]]
       ELSE el

optimise(el) ==
    CompactAttribute(CompactAttribute(el, attributes_to_compact_whitespace[1]),
                     attributes_to_compact_whitespace[2])

\* the token appended to the last chunk whenever that chunk is text
add_css_class_last_text(el, id) ==
    LET i == FindIndex(el.attributes, LAMBDA a : a.name = "class")
    IN IF Some(el.attributes, is_spread)
       THEN [el EXCEPT !.needs_manual_style_scoping = TRUE]
       ELSE IF i # 0 /\ ~el.attributes[i].is_true
       THEN IF el.attributes[i].value # <<>> /\ Last(el.attributes[i].value).type = "Text"
            THEN [el EXCEPT !.attributes[i].value[Len(el.attributes[i].value)].data =
                                @ \o <<" ">> \o id]
            ELSE [el EXCEPT !.attributes[i].value = Append(@, TextChunk(<<" ">> \o id))]
       ELSE [el EXCEPT !.attributes = Append(@, Dir("Attribute", "class", <<TextChunk(id)>>))]

add_css_class(el, id) ==
    LET i == FindIndex(el.attributes, LAMBDA a : a.name = "class")
    IN IF Some(el.attributes, is_spread)
       THEN [el EXCEPT !.needs_manual_style_scoping = TRUE]
       ELSE IF i # 0 /\ ~el.attributes[i].is_true
       THEN IF Len(el.attributes[i].value) = 1 /\ el.attributes[i].value[1].type = "Text"
            THEN [el EXCEPT !.attributes[i].value[1].data = @ \o <<" ">> \o id]
            ELSE [el EXCEPT !.attributes[i].value = Append(@, TextChunk(<<" ">> \o id))]
       ELSE [el EXCEPT !.attributes = Append(@, Dir("Attribute", "class", <<TextChunk(id)>>))]

\* ------------------------------------------------------------------ the templates compiled

\* an element descriptor as parsed; via lists the nodes between the enclosing element and
\* this one, outermost first
Info(name, tag, dirs, children, via) ==
    [name |-> name, tag |-> tag, attributes |-> Numbered(dirs),
     children |-> NumberedNodes(children), via |-> via]

El == Node("Element", <<>>, 0)

\* the parser rejects a second attribute or binding of one name
ParserUnique(ds) ==
    \A i, j \in Indices(ds) :
        (i # j /\ ds[i].type \in {"Attribute", "Binding"} /\ ds[j].type \in {"Attribute", "Binding"})
            => ds[i].name # ds[j].name

DirSeqs(D, n) == {ds \in DistinctSeqsUpTo(D, n) : ParserUnique(ds)}

\* a wrapper that only holds text and one child element, so that every corpus nests
Nest == Info("div", "", <<>>, <<TextChunk(<<"a">>), El>>, <<>>)

XmlnsDirs ==
    {StaticAttr("xmlns", NsForeign), StaticAttr("xmlns", NsSvg), DynamicAttr("xmlns"),
     BooleanAttr("xmlns"), Dir("Attribute", "xmlns", <<TextChunk(<<"x">>), ExprChunk>>)}

TreeInfos ==
    {Info(nt[1], nt[2], ds, cs, <<>>) :
        nt \in {<<"div", "">>, <<"svg", "">>, <<"foreignObject", "">>, <<"option", "">>,
                <<"svelte:element", "svg">>, <<"svelte:element", "#expr">>},
        ds \in DirSeqs(XmlnsDirs, MaxDirs - 1),
        cs \in {<<>>, <<El>>, <<TextChunk(<<"a">>), El>>}}

RewriteDirs ==
    {StaticAttr("value", <<"v">>), Dir("Binding", "value", <<>>), Dir("Class", "value", <<>>),
     StaticAttr("xmlns", NsForeign), StaticAttr("xmlns", NsSvg), Dir("Let", "x", <<>>)}

RewriteInfos ==
    {Info(name, "", ds, cs, <<>>) :
        name \in {"textarea", "option", "pre"},
        ds \in DirSeqs(RewriteDirs, MaxDirs),
        cs \in {<<>>, <<TextChunk(<<"\n", "a">>)>>, <<ExprChunk>>,
                <<TextChunk(<<"a">>), ExprChunk>>}}
    \cup {Info("div", "", ds, <<El>>, <<>>) : ds \in DirSeqs({StaticAttr("xmlns", NsForeign)}, 1)}

OrderDirs ==
    {StaticAttr("type", <<"text">>), Dir("Binding", "value", <<>>), Dir("Binding", "this", <<>>),
     Handler("click", <<>>, FALSE), Dir("Let", "x", <<>>)}

OrderInfos ==
    {Info(name, "", ds, <<>>, <<>>) :
        name \in {"input", "option"}, ds \in DirSeqs(OrderDirs, MaxDirs + 1)}
    \cup {Nest}

BindDirs ==
    {StaticAttr("type", <<"checkbox">>), StaticAttr("type", <<"radio">>),
     StaticAttr("type", <<"file">>), StaticAttr("type", <<"text">>), DynamicAttr("type"),
     BooleanAttr("type"), Dir("Spread", "", <<ExprChunk>>),
     Dir("Binding", "checked", <<>>), Dir("Binding", "indeterminate", <<>>),
     Dir("Binding", "group", <<>>), Dir("Binding", "files", <<>>), Dir("Binding", "this", <<>>)}

BindInfos ==
    {Info(name, "", ds, <<>>, <<>>) :
        name \in {"input", "select"}, ds \in DirSeqs(BindDirs, MaxDirs)}
    \cup {Nest}

ForeignDirs ==
    {StaticAttr("is", <<"x">>), StaticAttr("className", <<"c">>), StaticAttr("accesskey", <<"k">>),
     StaticAttr("role", <<"bogus">>), StaticAttr("a$b", <<"x">>), DynamicAttr("slot"),
     StaticAttr("aria-hidden", <<"true">>),
     Dir("Binding", "this", <<>>), Dir("Binding", "value", <<>>), Dir("Binding", "checked", <<>>),
     Handler("mouseover", <<>>, FALSE), Handler("click", <<"passive">>, FALSE),
     Handler("click", <<"bogus">>, FALSE)}

ForeignInfos ==
    {Info(name, "", ds, <<>>, <<>>) :
        name \in {"input", "a", "marquee", "widget"}, ds \in DirSeqs(ForeignDirs, MaxDirs)}
    \cup {Nest}

Modifiers == {"passive", "preventDefault", "nonpassive", "once", "bogus"}
EventDirs ==
    {Handler(name, ms, p) :
        name \in {"touchstart", "click"}, ms \in DistinctSeqsUpTo(Modifiers, MaxDirs),
        p \in BOOLEAN}

\* the handlers that come in company: a later handler is reached only past the earlier
EventCompany ==
    {Handler("touchstart", <<>>, TRUE), Handler("touchstart", <<"preventDefault">>, TRUE),
     Handler("wheel", <<"passive", "nonpassive">>, TRUE), Handler("click", <<"bogus">>, FALSE),
     Handler("touchmove", <<"once">>, FALSE), Handler("click", <<"passive">>, FALSE)}

EventInfos ==
    {Info("div", "", <<d>>, <<>>, <<>>) : d \in EventDirs}
    \cup {Info("div", "", ds, <<>>, <<>>) : ds \in DirSeqs(EventCompany, MaxDirs)}
    \cup {Nest}

ClassDirs ==
    {StaticAttr("class", <<"a", " ", "b">>), StaticAttr("class", <<" ", "a", " ", " ", "b", " ">>),
     BooleanAttr("class"), DynamicAttr("class"), Dir("Attribute", "class", <<>>),
     Dir("Attribute", "class", <<TextChunk(<<"a", " ">>), ExprChunk>>),
     Dir("Attribute", "class", <<ExprChunk, TextChunk(<<" ", "b">>)>>),
     Dir("Attribute", "class", <<TextChunk(<<"a", " ">>), ExprChunk, TextChunk(<<" ", "b">>)>>),
     StaticAttr("style", <<"c", " ", " ", "d">>), StaticAttr("id", <<"i">>),
     Dir("Spread", "", <<ExprChunk>>)}

CssInfos ==
    {Info("div", "", ds, <<>>, <<>>) : ds \in DirSeqs(ClassDirs, MaxDirs)} \cup {Nest}

SpecialDirs ==
    {StaticAttr("aria-label", <<"x">>), StaticAttr("aria-hidden", <<"true">>),
     StaticAttr("accesskey", <<"k">>), BooleanAttr("muted"), StaticAttr("xmlns", NsForeign),
     Handler("mouseover", <<>>, FALSE), Handler("mouseout", <<>>, FALSE),
     Handler("focus", <<>>, FALSE), Handler("touchstart", <<"once">>, TRUE),
     Handler("click", <<"passive">>, FALSE), Dir("Binding", "this", <<>>),
     Dir("Class", "c", <<>>)}

SpecialInfos ==
    {Info(name, "", ds, <<>>, <<>>) :
        name \in {"video", "a", "div", "marquee"}, ds \in DirSeqs(SpecialDirs, MaxDirs)}
    \cup {Nest}

RoleWords ==
    {<<"bogus">>, <<"button">>, <<"presentation">>, <<"banner">>, <<"heading">>, <<"link">>,
     <<"widget">>, <<"button", " ", "bogus">>, <<"button", " ", "button">>, <<" ", "link">>,
     <<"img", " ", "\n", "bogus">>, <<>>}

RoleDirs ==
    {StaticAttr("role", words) : words \in RoleWords}
    \cup {DynamicAttr("role"), BooleanAttr("role"), StaticAttr("href", <<"x">>),
          StaticAttr("aria-level", <<"1">>)}

RoleInfos ==
    {Info(name, "", ds, <<>>, <<>>) :
        name \in {"button", "a", "header", "h1", "div"}, ds \in DirSeqs(RoleDirs, MaxDirs)}
    \cup {Info("section", "", <<>>, <<El>>, <<>>), Nest}

LetDirs ==
    {Dir("Let", "x", <<>>), Dir("Let", "y", <<>>), StaticAttr("type", <<"text">>),
     Dir("Binding", "this", <<>>), Handler("click", <<>>, FALSE), Dir("Class", "c", <<>>)}

LetInfos ==
    {Info("div", "", ds, cs, <<>>) : ds \in DirSeqs(LetDirs, MaxDirs), cs \in {<<>>, <<El>>}}
    \cup {Nest}

SlotDirs ==
    {StaticAttr("slot", <<"a">>), StaticAttr("slot", <<"b">>), DynamicAttr("slot"),
     StaticAttr("id", <<"x">>)}

SlotInfos ==
    {Info("div", "", ds, <<>>, via) :
        ds \in DirSeqs(SlotDirs, MaxDirs),
        via \in {<<>>, <<"SlotTemplate">>, <<"InlineComponent">>}}
    \cup {Info(name, "", <<>>, cs, <<>>) : name \in {"my-el", "div"}, cs \in {<<El>>, <<El, El>>}}
    \cup {Nest}

Infos(c) ==
    CASE c = "tree" -> TreeInfos
      [] c = "slot" -> SlotInfos
      [] c = "let" -> LetInfos
      [] c = "role" -> RoleInfos
      [] c = "special" -> SpecialInfos
      [] c = "rewrite" -> RewriteInfos
      [] c = "order" -> OrderInfos
      [] c = "bind" -> BindInfos
      [] c = "foreign" -> ForeignInfos
      [] c = "event" -> EventInfos
      [] c = "css" -> CssInfos

HasElementChild(info) == Some(info.children, LAMBDA n : n.type = "Element")

\* the descriptors an element at this depth may have: the tree is at most MaxDepth deep
InfosAt(c, depth) == {i \in Infos(c) : depth >= MaxDepth => ~HasElementChild(i)}

Component(namespace, legacy) ==
    [namespace |-> namespace, legacy |-> legacy, slot_outlets |-> {}, imported |-> {"widget"},
     stylesheet_id |-> <<"svelte-s1">>]

Components(c) ==
    CASE c \in {"tree", "rewrite", "foreign", "bind"} ->
              {Component(ns, FALSE) : ns \in {Null, NsSvg, NsForeign}}
      [] c = "event" -> {Component(Null, legacy) : legacy \in BOOLEAN}
      [] OTHER -> {Component(Null, FALSE)}

\* ------------------------------------------------------------------ the compile

InitCorpus(c) ==
    /\ corpus = c
    /\ component \in Components(c)
    /\ stack = <<>>
    /\ \E info \in InfosAt(c, 0) : cur = NewFrame(info, <<{}>>)

\* new Element(...): the name and the namespace
Construct ==
    /\ cur.pc = "start"
    /\ cur' = ResolveNamespace(cur, stack, component)
    /\ UNCHANGED <<corpus, component, stack>>

Rewrite ==
    /\ cur.pc = "rewrite"
    /\ cur' = StructuralRewrite(cur)
    /\ UNCHANGED <<corpus, component, stack>>

Partition ==
    /\ cur.pc = "partition"
    /\ cur' = PartitionDirectives(cur)
    /\ UNCHANGED <<corpus, component, stack>>

NextChild(f) == Len(f.el.children) + 1

\* map_children: a child that is no element is built at once
MapLeafChild ==
    /\ cur.pc = "children"
    /\ NextChild(cur) <= Len(cur.info.children)
    /\ cur.info.children[NextChild(cur)].type # "Element"
    /\ cur' = [cur EXCEPT !.el.children = Append(@, LeafChild(cur.info.children[NextChild(cur)]))]
    /\ UNCHANGED <<corpus, component, stack>>

\* map_children: a child element's constructor is called with this element as parent
MapElementChild ==
    /\ cur.pc = "children"
    /\ NextChild(cur) <= Len(cur.info.children)
    /\ cur.info.children[NextChild(cur)].type = "Element"
    /\ Len(stack) < MaxDepth
    /\ \E info \in InfosAt(corpus, Len(stack) + 1) :
          /\ stack' = Append(stack, cur)
          /\ cur' = NewFrame(info, cur.el.scope)
    /\ UNCHANGED <<corpus, component>>

\* validate() called without waiting for map_children
ChildrenBuiltUnchecked(f) == TRUE
ChildrenBuilt(f) == Len(f.el.children) = Len(f.info.children)

Validate ==
    /\ cur.pc = "children"
    /\ ChildrenBuilt(cur)
    /\ cur' = validate([cur EXCEPT !.stages = Append(@, "children")],
                       AncestorsOf(stack, cur.info.via), component)
    /\ UNCHANGED <<corpus, component, stack>>

Optimise ==
    /\ cur.pc = "optimise"
    /\ cur' = [cur EXCEPT !.el = optimise(@), !.stages = Append(@, "optimise"),
                          !.pc = "apply_stylesheet"]
    /\ UNCHANGED <<corpus, component, stack>>

\* component.apply_stylesheet(this): the style sheet notes the element if a selector matches
Finished(f, matched) ==
    [f EXCEPT !.css = IF matched THEN "pending" ELSE "none",
              !.stages = Append(@, "apply_stylesheet"), !.pc = "done"]

\* the constructor of the root element returns to the driver
ReturnRoot ==
    /\ cur.pc = "apply_stylesheet"
    /\ stack = <<>>
    /\ \E matched \in BOOLEAN : cur' = Finished(cur, matched)
    /\ UNCHANGED <<corpus, component, stack>>

\* the constructor of a child returns into its parent's map_children
ReturnChild ==
    /\ cur.pc = "apply_stylesheet"
    /\ stack # <<>>
    /\ LET parent == Last(stack)
           node == parent.info.children[NextChild(parent)]
       IN cur' = [parent EXCEPT !.el.children = Append(@, BuiltChild(node, cur.el))]
    /\ stack' = Front(stack)
    /\ UNCHANGED <<corpus, component>>

\* stylesheet.reify(): add_css_class on the elements it noted, once each
AddCssClass ==
    /\ cur.pc = "done"
    /\ cur.css = "pending"
    /\ cur' = [cur EXCEPT !.el = add_css_class(@, component.stylesheet_id), !.css = "scoped"]
    /\ UNCHANGED <<corpus, component, stack>>

Next ==
    \/ Construct
    \/ Rewrite
    \/ Partition
    \/ MapLeafChild
    \/ MapElementChild
    \/ Validate
    \/ Optimise
    \/ ReturnRoot
    \/ ReturnChild
    \/ AddCssClass

Spec == InitCorpus("tree") /\ [][Next]_vars
SpecRewrite == InitCorpus("rewrite") /\ [][Next]_vars
SpecOrder == InitCorpus("order") /\ [][Next]_vars
SpecBind == InitCorpus("bind") /\ [][Next]_vars
SpecForeign == InitCorpus("foreign") /\ [][Next]_vars
SpecEvent == InitCorpus("event") /\ [][Next]_vars
SpecCss == InitCorpus("css") /\ [][Next]_vars
SpecSpecial == InitCorpus("special") /\ [][Next]_vars
SpecRole == InitCorpus("role") /\ [][Next]_vars
SpecLet == InitCorpus("let") /\ [][Next]_vars
SpecSlot == InitCorpus("slot") /\ [][Next]_vars

\* ------------------------------------------------------------------ properties

Done(f, stage) == stage \in Range(f.stages)

\* the namespace get_namespace gave the running constructor's element
ComputedNamespace == get_namespace(ParentElement(stack), cur.el.name, component.namespace)

IsStaticXmlns(d) == d.type = "Attribute" /\ d.name = "xmlns" /\ is_static(d)
HasStaticXmlns(info) == Some(info.attributes, IsStaticXmlns)
StaticXmlnsValue(info) == get_static_value(info.attributes[FindIndex(info.attributes, IsStaticXmlns)])

\* C1: once the directives are partitioned, the namespace of the element is the literal
\* value of its static xmlns attribute if it has one, and otherwise the reference function
\* of the nearest ancestor element, the tag and the global default; an xmlns attribute
\* that is not static leaves the computed namespace unchanged.
C1_NamespaceFunction ==
    Done(cur, "partition") =>
        cur.el.namespace = IF HasStaticXmlns(cur.raw) THEN StaticXmlnsValue(cur.raw)
                           ELSE ComputedNamespace

\* an explicit value attribute of the raw directive list, plain or bound
IsValueAttribute(d) == d.type = "Attribute" /\ d.name = "value"
IsExplicitValue(d) == d.type \in {"Attribute", "Binding"} /\ d.name = "value" /\ d.src # 0
ExplicitValue(info) == Some(info.attributes, IsExplicitValue)
\* the value attributes the constructor added
Synthesized(f) ==
    {i \in Indices(f.info.attributes) :
        IsValueAttribute(f.info.attributes[i]) /\ f.info.attributes[i].src = 0}
\* the same nodes in the same order, whatever their text has become
SameNodes(a, b) ==
    Len(a) = Len(b) /\ \A i \in Indices(a) : a[i].type = b[i].type /\ a[i].id = b[i].id
Rewritten(f) == f.pc \notin {"start", "rewrite"}

\* C2: a textarea outside the foreign namespace with at least one child: without an
\* explicit value attribute construction goes on with zero children and exactly one
\* synthesized value attribute holding the original children; with an explicit value
\* attribute the duplicate-value error is reported, nothing is synthesized and the
\* children stay.
C2_TextareaValue ==
    (/\ Rewritten(cur)
     /\ cur.el.name = "textarea"
     /\ ComputedNamespace # NsForeign
     /\ Len(cur.raw.children) > 0)
    => IF ~ExplicitValue(cur.raw)
       THEN /\ cur.error.code # "textarea_duplicate_value"
            /\ cur.info.children = <<>>
            /\ cur.el.children = <<>>
            /\ Cardinality(Synthesized(cur)) = 1
            /\ \A i \in Synthesized(cur) :
                  SameNodes(cur.info.attributes[i].value, cur.raw.children)
       ELSE /\ cur.error.code = "textarea_duplicate_value"
            /\ Synthesized(cur) = {}
            /\ cur.info.children # <<>>

\* C3: an option outside the foreign namespace gets exactly one synthetic value attribute
\* holding its children if and only if its raw directive list has no explicit value
\* attribute; the children are left as they were.
C3_OptionValue ==
    (/\ Rewritten(cur)
     /\ cur.el.name = "option"
     /\ ComputedNamespace # NsForeign)
    => /\ Cardinality(Synthesized(cur)) = (IF ExplicitValue(cur.raw) THEN 0 ELSE 1)
       /\ \A i \in Synthesized(cur) :
             /\ cur.info.attributes[i].synthetic
             /\ cur.info.attributes[i].value = cur.raw.children
       /\ cur.info.children = cur.raw.children

IsBinding(b) == b.type = "Binding"

\* C4: in any source order the Binding collaborators are constructed after every
\* collaborator of another kind, the synthesized attributes included; within the Binding
\* group and within the other group the construction order is the source order; and
\* every directive gets its collaborator.
C4_BindingsLast ==
    /\ \A i, j \in Indices(cur.built) :
          i < j =>
            /\ ~(IsBinding(cur.built[i]) /\ ~IsBinding(cur.built[j]))
            /\ (/\ IsBinding(cur.built[i]) = IsBinding(cur.built[j])
                /\ cur.built[i].src # 0
                /\ cur.built[j].src # 0) => cur.built[i].src < cur.built[j].src
    /\ Done(cur, "partition") =>
          /\ Len(cur.built) = Len(cur.info.attributes)
          /\ {cur.built[i].src : i \in Indices(cur.built)} \ {0} = Indices(cur.raw.attributes)

\* a binding written first in the source and built last, behind a synthesized attribute
C4_Witness ==
    /\ Done(cur, "partition")
    /\ \E i, j, k \in Indices(cur.built) :
          /\ i < j /\ k < j
          /\ IsBinding(cur.built[j]) /\ cur.built[j].src = 1
          /\ cur.built[i].type = "Attribute" /\ cur.built[i].src = 2
          /\ cur.built[k].synthetic

StageOrder ==
    <<"namespace", "rewrite", "partition", "children", "validate", "optimise", "apply_stylesheet">>
IsPrefix(s, t) == Len(s) <= Len(t) /\ s = SubSeq(t, 1, Len(s))

\* the stages of every constructor follow the order of the constructor's body; a
\* constructor suspended in map_children has not validated; validation finds every child
\* built
StagesInOrder ==
    /\ IsPrefix(cur.stages, StageOrder)
    /\ \A i \in Indices(stack) : stack[i].stages = SubSeq(StageOrder, 1, 3)
    /\ Done(cur, "validate") => Len(cur.el.children) = Len(cur.info.children)

\* a constructor returns to its caller with its whole pipeline run
ReturnsComplete ==
    Len(stack') < Len(stack) =>
        /\ cur.stages = SubSeq(StageOrder, 1, 6)
        /\ cur'.stages = SubSeq(StageOrder, 1, 3)

\* C5 (as amended): each element's construction runs namespace resolution, structural
\* rewrite, directive partitioning, construction of its child subtree and only then
\* validation, followed by the whitespace pass and the style sheet; the whole pipeline
\* of an element completes before control returns to its caller; no element is
\* validated before all its children are constructed.
C5_ChildrenBeforeValidation == []StagesInOrder /\ [][ReturnsComplete]_vars

\* a finished root whose child element went through its own pipeline
C5_Witness ==
    /\ cur.pc = "done"
    /\ cur.stages = StageOrder
    /\ Some(cur.el.children, LAMBDA c : c.type = "Element")

\* C5 (as stated): validation precedes the construction of the child subtree: no child
\* of an element is constructed before that element has been validated.
C5_ValidationBeforeChildren ==
    /\ \A i \in Indices(stack) : Done(stack[i], "validate")
    /\ Len(cur.el.children) > 0 => Done(cur, "validate")

\* the static type a binding name asks of its input
TypeSuits(name, type) ==
    \/ name \in {"checked", "indeterminate"} /\ type = <<"checkbox">>
    \/ name = "group" /\ type \in {<<"checkbox">>, <<"radio">>}
    \/ name = "files" /\ type = <<"file">>
IsTypeAttribute(a) == a.name = "type"
BindingSuits(el, name) ==
    /\ el.name = "input"
    /\ \E i \in Indices(el.attributes) :
          /\ IsTypeAttribute(el.attributes[i])
          /\ \A j \in 1..(i - 1) : ~IsTypeAttribute(el.attributes[j])
          /\ el.attributes[i].type = "Attribute"
          /\ ~el.attributes[i].is_true
          /\ Len(el.attributes[i].value) = 1
          /\ el.attributes[i].value[1].type = "Text"
          /\ TypeSuits(name, el.attributes[i].value[1].data)
TypedBindings == {"checked", "indeterminate", "group", "files"}

\* C6: outside the foreign namespace, validation completes only if every checked,
\* indeterminate, group and files binding sits on an input whose static type attribute
\* suits it (a missing, dynamic or value-less type does not), and no error is reported
\* for a binding whose condition is met.
C6_TypedBindings ==
    cur.el.namespace # NsForeign =>
        /\ Done(cur, "validate") =>
              \A i \in Indices(cur.el.bindings) :
                  cur.el.bindings[i].name \in TypedBindings
                      => BindingSuits(cur.el, cur.el.bindings[i].name)
        /\ (Failed(cur) /\ cur.error.type = "Binding" /\ cur.error.name \in TypedBindings)
              => ~BindingSuits(cur.el, cur.error.name)

\* a group binding accepted on a radio input
C6_Witness ==
    /\ Done(cur, "validate")
    /\ cur.el.name = "input"
    /\ Some(cur.el.bindings, LAMBDA b : b.name = "group")
    /\ Some(cur.el.attributes, LAMBDA a : a.name = "type" /\ get_static_value(a) = <<"radio">>)

ForeignErrors ==
    {"illegal-attribute-character", "invalid-slot-attribute", "duplicate-slot-attribute",
     "invalid-slotted-content", "invalid-event-modifier", "invalid-event-modifier-legacy",
     "invalid-event-modifier-combination", "invalid-binding-foreign"}
ForeignWarnings == {"component-name-lowercase", "redundant-event-modifier"}

\* C7: for an element of the foreign namespace validation applies the minimal rule set
\* only: a binding not named this is fatal and a this binding passes on any tag; the
\* generic attribute errors and the modifier legality still run; and no accessibility,
\* structure, per-tag binding, missing-content, is or aliased-spelling diagnostic
\* appears.
C7_ForeignMinimalRules ==
    (IsForeign(cur.el) /\ Done(cur, "children")) =>
        /\ \A i \in Indices(cur.warnings) : cur.warnings[i].code \in ForeignWarnings
        /\ Failed(cur) => cur.error.code \in ForeignErrors
        /\ cur.error.code = "invalid-binding-foreign"
              => cur.error.type = "Binding" /\ cur.error.name # "this"
        /\ cur.error.type = "Binding" => cur.error.code = "invalid-binding-foreign"
        /\ Done(cur, "validate") =>
              /\ \A i \in Indices(cur.el.bindings) : cur.el.bindings[i].name = "this"
              /\ \A i \in Indices(cur.el.attributes) :
                    ~IllegalAttributeName(cur.el.attributes[i].name)
              /\ \A i \in Indices(cur.el.handlers) :
                    Range(cur.el.handlers[i].modifiers) \subseteq valid_modifiers

\* a foreign anchor with an access key and a this binding, validated without a word
C7_Witness ==
    /\ IsForeign(cur.el)
    /\ Done(cur, "validate")
    /\ cur.el.name = "a"
    /\ HasAttribute(cur.el, "accesskey")
    /\ Some(cur.el.bindings, LAMBDA b : b.name = "this")
    /\ cur.warnings = <<>>

TouchOrWheel(h) == h.name \in {"wheel", "touchstart", "touchmove", "touchend", "touchcancel"}
\* the handler an error is bound to, as written in the source
Culprit(f) == f.raw.attributes[f.error.src]
\* what else than preventDefault makes a handler fail
OtherOffence(h, comp) ==
    \/ Has(h.modifiers, "passive")
    \/ \E m \in Range(h.modifiers) : m \notin valid_modifiers
    \/ comp.legacy /\ Has(h.modifiers, "once")
PreventDefaultIsLegal ==
    (/\ Failed(cur)
     /\ cur.error.type = "EventHandler"
     /\ Has(Culprit(cur).modifiers, "preventDefault")) => OtherOffence(Culprit(cur), component)

\* C8 (as amended): after event-handler validation every touch/wheel handler that is
\* auto-passivable and carries neither preventDefault nor nonpassive has the passive
\* modifier; a touch/wheel handler that carries preventDefault is not given passive, and
\* preventDefault by itself produces no error.
C8_AutoPassive ==
    /\ Done(cur, "validate") =>
          \A i \in Indices(cur.el.handlers) :
              TouchOrWheel(cur.el.handlers[i]) =>
                /\ (/\ cur.el.handlers[i].can_make_passive
                    /\ ~Has(cur.el.handlers[i].modifiers, "preventDefault")
                    /\ ~Has(cur.el.handlers[i].modifiers, "nonpassive"))
                      => Has(cur.el.handlers[i].modifiers, "passive")
                /\ Has(cur.el.handlers[i].modifiers, "preventDefault")
                      => ~Has(cur.el.handlers[i].modifiers, "passive")
    /\ PreventDefaultIsLegal

\* a bare auto-passivable touchstart handler that validation made passive
C8_Witness ==
    /\ Done(cur, "validate")
    /\ \E i \in Indices(cur.el.handlers) :
          /\ cur.el.handlers[i].name = "touchstart"
          /\ cur.el.handlers[i].can_make_passive
          /\ cur.raw.attributes[cur.el.handlers[i].src].modifiers = <<>>
          /\ cur.el.handlers[i].modifiers = <<"passive">>

\* C8 (as stated): after event-handler validation every touch/wheel handler that
\* carries neither preventDefault nor nonpassive has the passive modifier.
C8_EveryTouchPassive ==
    /\ Done(cur, "validate") =>
          \A i \in Indices(cur.el.handlers) :
              TouchOrWheel(cur.el.handlers[i]) =>
                /\ (/\ ~Has(cur.el.handlers[i].modifiers, "preventDefault")
                    /\ ~Has(cur.el.handlers[i].modifiers, "nonpassive"))
                      => Has(cur.el.handlers[i].modifiers, "passive")
                /\ Has(cur.el.handlers[i].modifiers, "preventDefault")
                      => ~Has(cur.el.handlers[i].modifiers, "passive")
    /\ PreventDefaultIsLegal

Clash(modifiers) ==
    /\ Has(modifiers, "passive")
    /\ Has(modifiers, "preventDefault") \/ Has(modifiers, "nonpassive")

\* C9: a handler that carries passive together with preventDefault or nonpassive is a
\* fatal error: an element with such a handler is never validated, and the error bound
\* to such a handler is the combination error; a validated element has no handler with
\* either pair, the automatic upgrade included.
C9_NoPassiveClash ==
    /\ Done(cur, "validate") =>
          /\ \A i \in Indices(cur.el.handlers) : ~Clash(cur.el.handlers[i].modifiers)
          /\ \A i \in Indices(cur.raw.attributes) :
                cur.raw.attributes[i].type = "EventHandler"
                    => ~Clash(cur.raw.attributes[i].modifiers)
    /\ (Failed(cur) /\ cur.error.type = "EventHandler" /\ Clash(Culprit(cur).modifiers))
          => cur.error.code = "invalid-event-modifier-combination"

\* the combination error on a handler that is both passive and nonpassive
C9_Witness ==
    /\ Failed(cur)
    /\ cur.error.code = "invalid-event-modifier-combination"
    /\ Has(Culprit(cur).modifiers, "passive")
    /\ Has(Culprit(cur).modifiers, "nonpassive")

\* the step that injects the scope class
Injects == cur.css = "pending" /\ cur'.css = "scoped"
Token == component.stylesheet_id
IsClass(a) == a.name = "class" /\ ~a.is_true
SameBut(b, a, i) == Len(b) = Len(a) /\ \A j \in Indices(a) : j # i => b[j] = a[j]
SameButValue(b, a) == b = [a EXCEPT !.value = b.value]

\* the element with a spread is left alone and flagged
InjectsSpread(before, after) ==
    /\ after.attributes = before.attributes
    /\ after.needs_manual_style_scoping
\* without a class attribute to extend, one class attribute is added
InjectsNew(before, after) ==
    /\ Len(after.attributes) = Len(before.attributes) + 1
    /\ Front(after.attributes) = before.attributes
    /\ Last(after.attributes).type = "Attribute"
    /\ Last(after.attributes).name = "class"
    /\ Last(after.attributes).value = <<TextChunk(Token)>>
    /\ after.needs_manual_style_scoping = before.needs_manual_style_scoping
\* the chunk extended in place
Extended(old, new, k) ==
    /\ SameBut(new, old, k)
    /\ new[k] = [old[k] EXCEPT !.data = @ \o <<" ">> \o Token]
\* a new trailing text chunk
Trailing(old, new) == new = Append(old, TextChunk(<<" ">> \o Token))

\* the injection as the method performs it
ScopeInjection(before, after) ==
    IF Some(before.attributes, is_spread) THEN InjectsSpread(before, after)
    ELSE IF Some(before.attributes, IsClass)
    THEN LET i == FindIndex(before.attributes, IsClass)
             old == before.attributes[i].value
             new == after.attributes[i].value
         IN /\ SameBut(after.attributes, before.attributes, i)
            /\ SameButValue(after.attributes[i], before.attributes[i])
            /\ IF Len(old) = 1 /\ old[1].type = "Text" THEN Extended(old, new, 1)
               ELSE Trailing(old, new)
            /\ after.needs_manual_style_scoping = before.needs_manual_style_scoping
    ELSE InjectsNew(before, after)

\* C10 (as amended): with a spread attribute the attributes are unchanged and the
\* element is flagged; otherwise a non-boolean class attribute whose only chunk is text
\* gets the token appended to that chunk after a blank (class="a b" becomes
\* class="a b s"), and any other non-boolean class attribute gets a new trailing text
\* chunk; otherwise one class attribute whose only chunk is the token is added.  No
\* other attribute changes.
C10_ScopeClass == [][Injects => ScopeInjection(cur.el, cur'.el)]_vars

\* a class attribute that ended in text and got the token in a chunk of its own
C10_Witness ==
    /\ cur.css = "scoped"
    /\ \E i \in Indices(cur.el.attributes) :
          /\ IsClass(cur.el.attributes[i])
          /\ Len(cur.el.attributes[i].value) = 3
          /\ cur.el.attributes[i].value[2].type = "Text"
          /\ cur.el.attributes[i].value[3] = TextChunk(<<" ">> \o Token)

\* the injection aimed at the last chunk
LastChunkInjection(before, after) ==
    IF Some(before.attributes, is_spread) THEN InjectsSpread(before, after)
    ELSE IF Some(before.attributes, IsClass)
    THEN LET i == FindIndex(before.attributes, IsClass)
             old == before.attributes[i].value
             new == after.attributes[i].value
         IN /\ SameBut(after.attributes, before.attributes, i)
            /\ SameButValue(after.attributes[i], before.attributes[i])
            /\ IF old # <<>> /\ Last(old).type = "Text" THEN Extended(old, new, Len(old))
               ELSE Trailing(old, new)
    ELSE InjectsNew(before, after)

\* C10 (as stated): the token goes to the last chunk of the class attribute when that
\* chunk is text, and to a new trailing chunk only when it is not.
C10_LastTextChunk == [][Injects => LastChunkInjection(cur.el, cur'.el)]_vars

\* the whitespace pass run again on the element it left behind
OptimiseRepeats ==
    (Done(cur, "optimise") /\ cur.css # "scoped") => optimise(cur.el) = cur.el
\* the injection run again, with the same token, on the element it left behind
InjectionRepeats ==
    cur.css = "scoped" => add_css_class(cur.el, Token) = cur.el

\* C11: both post-pass operations are idempotent: the whitespace pass run twice leaves
\* the attribute chunks of one run, and the scope-class injection run twice with the
\* same token leaves the attribute list, the chunks and the flags of one run.
C11_PostPassIdempotent == OptimiseRepeats /\ InjectionRepeats

\* the step of the constructor that runs validate()
Validates == cur.pc = "children" /\ cur'.pc \in {"optimise", "error"}

\* the modifiers written, with passive at most added
PassiveAtMostAdded(old, new) == new = old \/ (~Has(old, "passive") /\ new = Append(old, "passive"))
SameHandlers(old, new) ==
    /\ Len(new) = Len(old)
    /\ \A i \in Indices(old) :
          /\ new[i] = [old[i] EXCEPT !.modifiers = new[i].modifiers]
          /\ PassiveAtMostAdded(old[i].modifiers, new[i].modifiers)
SameStructure(before, after) ==
    /\ after.name = before.name
    /\ after.namespace = before.namespace
    /\ after.attributes = before.attributes
    /\ after.bindings = before.bindings
    /\ after.classes = before.classes
    /\ after.styles = before.styles
    /\ after.actions = before.actions
    /\ after.lets = before.lets
    /\ after.intro = before.intro
    /\ after.outro = before.outro
    /\ after.animation = before.animation
    /\ after.children = before.children
    /\ after.scope = before.scope
    /\ SameHandlers(before.handlers, after.handlers)

\* C12: across validate() the name, the namespace, the attributes and their chunks, the
\* binding, class, style, action and let lists, the transitions, the animation, the
\* children and the scope of the element are unchanged, the handler list is unchanged,
\* and a handler's modifiers change at most by the addition of passive, whatever
\* warnings are emitted.
C12_ValidateFrame == [][Validates => SameStructure(cur.el, cur'.el)]_vars

\* a validated element with several warnings and a handler that was made passive
C12_Witness ==
    /\ Done(cur, "validate")
    /\ Len(cur.warnings) >= 2
    /\ Len(cur.el.attributes) > 0
    /\ \E i \in Indices(cur.el.handlers) :
          cur.el.handlers[i].modifiers = <<"once", "passive">>

\* the role tokens of the element: the words of its static role value
HasStaticRole(el) ==
    HasAttribute(el, "role") /\ get_static_value(AttributeOf(el, "role")) \notin {Null, True}
RoleTokens(el) == Split(get_static_value(AttributeOf(el, "role")))
Occurrences(words, t) == Cardinality({i \in Indices(words) : words[i] = t})
\* the warnings of one kind that quote the token
Warned(f, code, t) ==
    Cardinality({i \in Indices(f.warnings) : f.warnings[i].code = code /\ f.warnings[i].arg = t})
Restates(el, t) == t = el.name \/ t = a11y_implicit_semantics(el.name)
Demotes(el, t) ==
    is_interactive_element(el) /\ (is_non_interactive_roles(t) \/ is_presentation_role(t))

\* C13: for a static role attribute every token that is no known role yields exactly one
\* unknown-role warning and no abstract-role warning; every token that restates the
\* tag's name or its implicit role yields exactly one redundant-role warning, and no
\* token ever yields two; every non-interactive or presentation token on a natively
\* interactive element yields exactly one interactive-to-noninteractive warning.
C13_RoleWarnings ==
    (Done(cur, "validate") /\ ~IsForeign(cur.el) /\ HasStaticRole(cur.el)) =>
        \A t \in Range(RoleTokens(cur.el)) \ {""} :
            LET n == Occurrences(RoleTokens(cur.el), t)
            IN /\ Warned(cur, "a11y-unknown-role", t) = (IF t \in aria_role_set THEN 0 ELSE n)
               /\ t \notin aria_role_set => Warned(cur, "a11y-no-abstract-role", t) = 0
               /\ Restates(cur.el, t) => Warned(cur, "a11y-no-redundant-roles", t) = n
               /\ Warned(cur, "a11y-no-redundant-roles", t) <= n
               /\ Warned(cur, "a11y-no-interactive-element-to-noninteractive-role", t)
                     = (IF Demotes(cur.el, t) THEN n ELSE 0)

\* a button whose role restates it and adds an unknown word
C13_Witness ==
    /\ Done(cur, "validate")
    /\ cur.el.name = "button"
    /\ HasStaticRole(cur.el)
    /\ RoleTokens(cur.el) = <<"button", "bogus">>
    /\ Warned(cur, "a11y-no-redundant-roles", "button") = 1
    /\ Warned(cur, "a11y-unknown-role", "bogus") = 1

\* the let directives of the element, by source position
LetsOf(info) == {i \in Indices(info.attributes) : info.attributes[i].type = "Let"}
\* the scope the running constructor was handed
Enclosing == IF stack = <<>> THEN <<{}>> ELSE Last(stack).el.scope
\* the scope of the element extends the enclosing scope and writes nothing into it
EnclosingKept == cur.scope = Enclosing \/ Front(cur.scope) = Enclosing
\* the children are handed the names of the element
HandedDown ==
    /\ Done(cur, "partition") =>
          \A i \in LetsOf(cur.raw) : cur.raw.attributes[i].name \in ScopeNames(cur.el.scope)
    /\ ScopeNames(Enclosing) \subseteq ScopeNames(cur.scope)
\* a collaborator built from the source, at log position k, against the let at position i
Compared(k, i) == cur.built[k].src # 0 /\ cur.built[k].src # i
Fresh(i) == cur.raw.attributes[i].name \notin ScopeNames(Enclosing)
Sees(k, i) == cur.raw.attributes[i].name \in cur.built[k].visible

\* C14 (as amended): the names of a let directive are visible in the scope used to
\* construct the directives built after it, which are the directives later in source
\* and every Binding wherever it stands, and in the scope handed to the children; they
\* are not visible at construction time to the other directives earlier in source; the
\* enclosing scope never gains them.
C14_LetScope ==
    /\ \A k \in Indices(cur.built), i \in LetsOf(cur.raw) :
          Compared(k, i) =>
            /\ (cur.built[k].src > i \/ IsBinding(cur.built[k])) => Sees(k, i)
            /\ (cur.built[k].src < i /\ ~IsBinding(cur.built[k]) /\ Fresh(i)) => ~Sees(k, i)
    /\ HandedDown
    /\ EnclosingKept

\* a binding written before the let and built with the let's name in scope, under a
\* parent that has a let of its own
C14_Witness ==
    /\ Done(cur, "partition")
    /\ stack # <<>>
    /\ ScopeNames(Enclosing) # {}
    /\ \E k \in Indices(cur.built), i \in LetsOf(cur.raw) :
          /\ IsBinding(cur.built[k])
          /\ cur.built[k].src < i
          /\ Fresh(i)
          /\ Sees(k, i)

\* C14 (as stated): the names are visible to the directives later in source and to the
\* children, and not to the directives earlier in source; the enclosing scope never
\* gains them.
C14_LetScopeBySource ==
    /\ \A k \in Indices(cur.built), i \in LetsOf(cur.raw) :
          Compared(k, i) =>
            /\ cur.built[k].src > i => Sees(k, i)
            /\ (cur.built[k].src < i /\ Fresh(i)) => ~Sees(k, i)
    /\ HandedDown
    /\ EnclosingKept

\* no structural rewrite has touched the element: nothing synthesized, the children and
\* their text as parsed
Untouched(f) == Synthesized(f) = {} /\ f.info.children = f.raw.children

\* C15: an element whose namespace, once its directives are partitioned, is the foreign
\* one, be it inherited, the default or declared by its own static xmlns attribute, has
\* had no structural rewrite applied: no leading newline stripped, no value attribute
\* synthesized, no children cleared.
C15_ForeignUntouched ==
    (Done(cur, "partition") /\ cur.el.namespace = NsForeign) => Untouched(cur)

\* the slot attributes of an element
SlotAttributes(el) ==
    {i \in Indices(el.attributes) :
        ~is_spread(el.attributes[i]) /\ ToLowerCase(el.attributes[i].name) = "slot"}
StaticSlots(el) ==
    {get_static_value(el.attributes[i]) :
        i \in {j \in SlotAttributes(el) : is_static(el.attributes[j])}}
\* the slots declared by the elements the parent has already built
DeclaredBefore ==
    IF stack = <<>> THEN {}
    ELSE UNION {StaticSlots(c.el) :
                   c \in {b \in Range(Last(stack).el.children) : b.type = "Element"}}
\* under a slot-content wrapper, or in a custom subtree no inline component cuts off
SlotPlace ==
    \/ Head(AncestorsOf(stack, cur.info.via)).type = "SlotTemplate"
    \/ within_custom_element(AncestorsOf(stack, cur.info.via))
LegalSlot(attribute) ==
    /\ is_static(attribute)
    /\ get_static_value(attribute) \notin DeclaredBefore
    /\ SlotPlace

\* C16: a slot attribute is accepted only if it is static, no element built before in
\* the component declares the same slot, and the element stands under a slot-content
\* wrapper or in a custom subtree not cut off by an inline component; validation of an
\* element with a slot attribute that breaks one of the three ends in a fatal error, so
\* the second of two elements with one static slot value is fatal.
C16_SlotAccepted ==
    (cur.pc \notin {"start", "rewrite", "partition", "children"})
    => \A i \in SlotAttributes(cur.el) : ~LegalSlot(cur.el.attributes[i]) => Failed(cur)

\* the element is validated and the handler of the mouse event lacks its keyboard twin
Unpaired(mouse, key) ==
    /\ Done(cur, "validate")
    /\ cur.el.namespace # NsForeign
    /\ HasHandler(cur.el, mouse)
    /\ ~HasHandler(cur.el, key)

\* C17: a validated element outside the foreign namespace, whatever its tag and its
\* attributes, that has a mouseover handler and no focus handler carries one
\* mouse-events-have-key-events warning for mouseover, and one for mouseout when it has a
\* mouseout handler and no blur handler; no earlier tag-specific check suppresses them.
C17_MouseEventsWarn ==
    /\ Unpaired("mouseover", "focus")
          => Warned(cur, "a11y-mouse-events-have-key-events", "mouseover") = 1
    /\ Unpaired("mouseout", "blur")
          => Warned(cur, "a11y-mouse-events-have-key-events", "mouseout") = 1

\* the step of the constructor that runs optimise()
Optimises == cur.pc = "optimise" /\ cur'.pc = "apply_stylesheet"
\* a non-boolean class or style attribute
Compactable(a) == a.name \in Range(attributes_to_compact_whitespace) /\ ~a.is_true
\* the text of chunk k of n after the pass: runs collapsed, the leading edge of the first
\* chunk and the trailing edge of the last chunk trimmed
Trimmed(data, k, n) ==
    LET left == IF k = 1 THEN trimLeft(Collapse(data)) ELSE Collapse(data)
    IN IF k = n THEN trimRight(left) ELSE left
CompactedChunks(old, new) ==
    /\ Len(new) = Len(old)
    /\ \A k \in Indices(old) :
          IF old[k].type = "Text"
          THEN new[k] = [old[k] EXCEPT !.data = Trimmed(old[k].data, k, Len(old))]
          ELSE new[k] = old[k]
Compaction(before, after) ==
    /\ Len(after.attributes) = Len(before.attributes)
    /\ \A i \in Indices(before.attributes) :
          IF Compactable(before.attributes[i])
          THEN /\ SameButValue(before.attributes[i], after.attributes[i])
               /\ CompactedChunks(before.attributes[i].value, after.attributes[i].value)
          ELSE after.attributes[i] = before.attributes[i]
    /\ [after EXCEPT !.attributes = before.attributes] = before

\* C18: the whitespace pass replaces every whitespace run of every text chunk of a
\* non-boolean class or style attribute by one space, removes the leading whitespace of
\* the first chunk and the trailing whitespace of the last chunk, both of them when the
\* attribute has a single text chunk, leaves expression chunks and every other attribute
\* as they were.
C18_WhitespaceCompaction == [][Optimises => Compaction(cur.el, cur'.el)]_vars

====
